---------------------------- MODULE Spec2Model ----------------------------
(***************************************************************************)
(* Model of cisagov/tpt-reports: the aggregation pass parse_json, the      *)
(* loader load_json_file, the driver generate_reports, the command-line    *)
(* entry point main, the table builder format_table and report_gen: its    *)
(* report key, its story and the build.                                    *)
(*                                                                         *)
(* A JSON document is a record [kind, keys, payloads]: kind "None" is the  *)
(* JSON null / Python None, kind "dict" is an object whose key set is keys *)
(* and whose "payloads" entry (when "payloads" \in keys) is payloads.  A   *)
(* payload record is a function from the keys it carries to strings, so a  *)
(* missing field is a key outside its DOMAIN, as in the Python dict.       *)
(*                                                                         *)
(* Calls into the rendering library (Paragraph, Table, multiBuild) are     *)
(* taken to return; only what the repository's own code reads, writes and  *)
(* raises is modelled.                                                     *)
(***************************************************************************)
EXTENDS Integers, Sequences, FiniteSets, TLC

(* ------------------------------ bounds -------------------------------- *)
MaxPayloads == 2

\* invocations of report_gen a direct caller makes in a row
MaxRuns == 2

(* --------------------------- input universe --------------------------- *)
Descriptions == {"Test payload", "Second payload"}
Protocols == {"c2_1"}
Codes == {"B", "N", "X"}

FullKeys == {"payload_description", "c2_protocol ", "border_protection", "host_protection"}

AllKeys == FullKeys \cup {"c2_protocol"}

ValuesOf(k) ==
    CASE k = "payload_description" -> Descriptions
      [] k = "c2_protocol " -> Protocols
      [] k = "c2_protocol" -> Protocols
      [] k = "border_protection" -> Codes
      [] k = "host_protection" -> Codes

AllValues == Descriptions \cup Protocols \cup Codes

\* records that carry the four keys parse_json reads
FullPayloads == {p \in [FullKeys -> AllValues] : \A k \in FullKeys : p[k] \in ValuesOf(k)}

Restrict(p, K) == [k \in K |-> p[k]]

\* the protocol stored under the key without the trailing space
Respell(p) ==
    [k \in (FullKeys \ {"c2_protocol "}) \cup {"c2_protocol"} |->
        IF k = "c2_protocol" THEN p["c2_protocol "] ELSE p[k]]

\* the two records from which the malformed records are derived
BasePayloads ==
    {p \in FullPayloads : /\ p["payload_description"] = "Test payload"
                          /\ \/ p["border_protection"] = "N" /\ p["host_protection"] = "B"
                             \/ p["border_protection"] = "X" /\ p["host_protection"] = "X"}

Payloads ==
    FullPayloads
      \cup {Restrict(p, FullKeys \ {k}) : p \in BasePayloads, k \in FullKeys}
      \cup {Respell(p) : p \in BasePayloads}

RECURSIVE SeqsUpTo(_, _)
SeqsUpTo(S, n) ==
    IF n = 0 THEN {<< >>}
    ELSE LET shorter == SeqsUpTo(S, n - 1)
         IN  shorter \cup {Append(s, x) : s \in {t \in shorter : Len(t) = n - 1}, x \in S}

None == [kind |-> "None", keys |-> {}, payloads |-> << >>]

Dict(K, ps) == [kind |-> "dict", keys |-> K, payloads |-> ps]

\* documents: null, {}, an object without "payloads", an object with it
Documents ==
    {None, Dict({}, << >>), Dict({"id"}, << >>)}
      \cup {Dict({"payloads"}, ps) : ps \in SeqsUpTo(Payloads, MaxPayloads)}

\* Python truthiness of a loaded document (`if data:`)
Truthy(d) == d.kind = "dict" /\ d.keys # {}

(* ---------------------- inputs of format_table ------------------------ *)
MaxRows == 2

\* column-name lists of the frames handed to format_table
Headers == { << >>, << "Blocked" >>, << "Payload", "Border Protection" >> }

CellValues == {"Blocked", "Not Blocked", "c2_1"}

\* a DataFrame: its column names and its rows as np.array(df).tolist() gives them
Frames ==
    UNION { { [columns |-> h, rows |-> rs] :
                rs \in SeqsUpTo([1..Len(h) -> CellValues], MaxRows) } : h \in Headers }

\* list lengths a caller may pass for a frame of n columns
NearLengths(n) == {m \in {n - 1, n, n + 1} : m >= 0}

\* a column style is a ParagraphStyle ("body") or None
StyleLists(n) == UNION { [1..m -> {"body", "None"}] : m \in NearLengths(n) }

WidthLists(n) == { [j \in 1..m |-> "inch"] : m \in NearLengths(n) }

(* ------------------------------ messages ------------------------------ *)
BorderMsg == "border_protection value must be either B or N"
HostMsg == "host_protection value must be either B or N"

NoExc == [type |-> "none", arg |-> ""]
Exc(t, a) == [type |-> t, arg |-> a]

(* ------------------------------- state --------------------------------- *)
VARIABLES
    entry,               \* the function the caller invoked
    file,                \* content of the file at json_file_path
    file_exists,         \* whether that file can be opened
    data,                \* argument of parse_json / local of generate_reports
    pc,                  \* position in the code
    border_blocked, border_not_blocked, host_blocked, host_not_blocked,
    num_payloads, payloads_list, payloads_meta,   \* locals of parse_json
    exc,                 \* exception in flight (NoExc when none)
    log,                 \* messages written through LOGGER.error/exception
    ret,                 \* result of generate_reports
    parse_json_calls,    \* times parse_json was entered
    report_gen_calls,    \* times report_gen was entered
    Story,               \* blocks appended by report_gen
    multiBuild_calls,    \* times doc.multiBuild ran
    df, column_widths, column_style_list,   \* arguments of format_table
    table,               \* what format_table returned
    report_key,          \* local of report_gen
    environ,             \* os.environ["TPT_REPORT_KEY"] ("None" while unset)
    doc_key,             \* report_key received by MyDocTemplate.__init__
    doc_encrypt,         \* doc.encrypt
    stdout,              \* keys printed by report_gen, in order
    narrative,           \* the two counters formatted into the narrative paragraph
    results_table,       \* the format_table result appended to the story
    built_story,         \* the story doc.multiBuild received
    runs,                \* invocations of report_gen made by a direct caller
    args,                \* command-line arguments of main
    output_dir_exists,   \* whether OUTPUT_DIRECTORY exists
    generate_reports_calls,  \* times main called generate_reports
    exit_code            \* process exit status (-1 while running)

vars == <<entry, file, file_exists, data, pc, border_blocked, border_not_blocked,
          host_blocked, host_not_blocked, num_payloads, payloads_list,
          payloads_meta, exc, log, ret, parse_json_calls, report_gen_calls, Story,
          multiBuild_calls, df, column_widths, column_style_list, table, report_key,
          environ, doc_key, doc_encrypt, stdout, narrative, results_table, built_story,
          runs, args, output_dir_exists, generate_reports_calls, exit_code>>

pj_locals == <<border_blocked, border_not_blocked, host_blocked, host_not_blocked,
               num_payloads, payloads_list, payloads_meta>>

ft_vars == <<df, column_widths, column_style_list, table>>

rg_vars == <<report_key, environ, doc_key, doc_encrypt, stdout, narrative, results_table,
             built_story, runs>>

main_vars == <<args, output_dir_exists, generate_reports_calls, exit_code>>

EmptyMeta == [k \in {} |-> 0]

MetaKeys == {"border_blocked", "border_not_blocked", "host_blocked", "host_not_blocked",
             "num_payloads", "payloads_blocked", "payloads_not_blocked"}

RowKeys == {"Payload", "C2 Protocol", "Border Protection", "Host Protection"}


(* --------------------------- parse_json -------------------------------- *)
Has(payload, k) == k \in DOMAIN payload

\* BorderOutcome with the two labels exchanged
BorderOutcome_SwappedLabels(payload) ==
    IF ~Has(payload, "border_protection")
    THEN [exc |-> Exc("KeyError", "border_protection"), label |-> "", blocked |-> 0, not_blocked |-> 0]
    ELSE IF payload["border_protection"] = "N"
    THEN [exc |-> NoExc, label |-> "Blocked", blocked |-> 0, not_blocked |-> 1]
    ELSE IF payload["border_protection"] = "B"
    THEN [exc |-> NoExc, label |-> "Not Blocked", blocked |-> 1, not_blocked |-> 0]
    ELSE [exc |-> Exc("ValueError", BorderMsg), label |-> "", blocked |-> 0, not_blocked |-> 0]

\* BorderOutcome whose final branch counts any other code as blocked
BorderOutcome_NoElse(payload) ==
    IF ~Has(payload, "border_protection")
    THEN [exc |-> Exc("KeyError", "border_protection"), label |-> "", blocked |-> 0, not_blocked |-> 0]
    ELSE IF payload["border_protection"] = "N"
    THEN [exc |-> NoExc, label |-> "Not Blocked", blocked |-> 0, not_blocked |-> 1]
    ELSE [exc |-> NoExc, label |-> "Blocked", blocked |-> 1, not_blocked |-> 0]

\* outcome of the border_protection branch for one record
BorderOutcome(payload) ==
    IF ~Has(payload, "border_protection")
    THEN [exc |-> Exc("KeyError", "border_protection"), label |-> "", blocked |-> 0, not_blocked |-> 0]
    ELSE IF payload["border_protection"] = "N"
    THEN [exc |-> NoExc, label |-> "Not Blocked", blocked |-> 0, not_blocked |-> 1]
    ELSE IF payload["border_protection"] = "B"
    THEN [exc |-> NoExc, label |-> "Blocked", blocked |-> 1, not_blocked |-> 0]
    ELSE [exc |-> Exc("ValueError", BorderMsg), label |-> "", blocked |-> 0, not_blocked |-> 0]

\* HostOutcome whose "B" branch increments both host counters
HostOutcome_DoubleCount(payload) ==
    IF ~Has(payload, "host_protection")
    THEN [exc |-> Exc("KeyError", "host_protection"), label |-> "", blocked |-> 0, not_blocked |-> 0]
    ELSE IF payload["host_protection"] = "N"
    THEN [exc |-> NoExc, label |-> "Not Blocked", blocked |-> 0, not_blocked |-> 1]
    ELSE IF payload["host_protection"] = "B"
    THEN [exc |-> NoExc, label |-> "Blocked", blocked |-> 1, not_blocked |-> 1]
    ELSE [exc |-> Exc("ValueError", HostMsg), label |-> "", blocked |-> 0, not_blocked |-> 0]

\* outcome of the host_protection branch for one record
HostOutcome(payload) ==
    IF ~Has(payload, "host_protection")
    THEN [exc |-> Exc("KeyError", "host_protection"), label |-> "", blocked |-> 0, not_blocked |-> 0]
    ELSE IF payload["host_protection"] = "N"
    THEN [exc |-> NoExc, label |-> "Not Blocked", blocked |-> 0, not_blocked |-> 1]
    ELSE IF payload["host_protection"] = "B"
    THEN [exc |-> NoExc, label |-> "Blocked", blocked |-> 1, not_blocked |-> 0]
    ELSE [exc |-> Exc("ValueError", HostMsg), label |-> "", blocked |-> 0, not_blocked |-> 0]

\* the two subscript reads that open the loop body
FieldsExc(payload) ==
    IF ~Has(payload, "payload_description") THEN Exc("KeyError", "payload_description")
    ELSE IF ~Has(payload, "c2_protocol ") THEN Exc("KeyError", "c2_protocol ")
    ELSE NoExc

\* the exception one loop iteration raises, NoExc when it completes
PayloadExc(payload) ==
    IF FieldsExc(payload) # NoExc THEN FieldsExc(payload)
    ELSE IF BorderOutcome(payload).exc # NoExc THEN BorderOutcome(payload).exc
    ELSE HostOutcome(payload).exc

\* PayloadData taking the protocol from the description field
PayloadData_WrongField(payload) ==
    [k \in RowKeys |->
        CASE k = "Payload" -> payload["payload_description"]
          [] k = "C2 Protocol" -> payload["payload_description"]
          [] k = "Border Protection" -> BorderOutcome(payload).label
          [] k = "Host Protection" -> HostOutcome(payload).label]

\* payload_data as appended at the end of a completed iteration
PayloadData(payload) ==
    [k \in RowKeys |->
        CASE k = "Payload" -> payload["payload_description"]
          [] k = "C2 Protocol" -> payload["c2_protocol "]
          [] k = "Border Protection" -> BorderOutcome(payload).label
          [] k = "Host Protection" -> HostOutcome(payload).label]

\* AppendRow inserting at the front
AppendRow_Prepend(rows, row) == <<row>> \o rows

\* payloads_list.append(payload_data)
AppendRow(rows, row) == Append(rows, row)

\* PayloadsMeta whose payloads_blocked sums the two border counters
PayloadsMeta_BorderTwice(bb, bnb, hb, hnb, n) ==
    [k \in MetaKeys |->
        CASE k = "border_blocked" -> bb
          [] k = "border_not_blocked" -> bnb
          [] k = "host_blocked" -> hb
          [] k = "host_not_blocked" -> hnb
          [] k = "num_payloads" -> n
          [] k = "payloads_blocked" -> bb + bnb
          [] k = "payloads_not_blocked" -> bnb + hnb]

\* the seven assignments that close the try block
PayloadsMeta(bb, bnb, hb, hnb, n) ==
    [k \in MetaKeys |->
        CASE k = "border_blocked" -> bb
          [] k = "border_not_blocked" -> bnb
          [] k = "host_blocked" -> hb
          [] k = "host_not_blocked" -> hnb
          [] k = "num_payloads" -> n
          [] k = "payloads_blocked" -> bb + hb
          [] k = "payloads_not_blocked" -> bnb + hnb]

\* entry of parse_json: the locals are initialised, `if data:` is evaluated
\* and data["payloads"] is looked up
ParseJsonEnter ==
    /\ pc = "pj_enter"
    /\ parse_json_calls' = parse_json_calls + 1
    /\ border_blocked' = 0 /\ border_not_blocked' = 0
    /\ host_blocked' = 0 /\ host_not_blocked' = 0
    /\ num_payloads' = 0 /\ payloads_list' = << >> /\ payloads_meta' = EmptyMeta
    /\ IF ~Truthy(data) THEN pc' = "pj_meta" /\ exc' = NoExc
       ELSE IF "payloads" \notin data.keys
            THEN pc' = "pj_except" /\ exc' = Exc("KeyError", "payloads")
            ELSE pc' = "pj_loop" /\ exc' = NoExc
    /\ UNCHANGED <<entry, file, file_exists, data, log, ret, report_gen_calls, Story,
                   multiBuild_calls,
                   ft_vars, rg_vars, main_vars>>

\* one iteration of `for payload in data["payloads"]`
ParseJsonRecord ==
    /\ pc = "pj_loop"
    /\ num_payloads < Len(data.payloads)
    /\ LET payload == data.payloads[num_payloads + 1]
           fields_ok == FieldsExc(payload) = NoExc
           border == BorderOutcome(payload)
           border_ok == fields_ok /\ border.exc = NoExc
           host == HostOutcome(payload)
           host_ok == border_ok /\ host.exc = NoExc
       IN  /\ num_payloads' = num_payloads + 1
           /\ border_blocked' = IF border_ok THEN border_blocked + border.blocked
                                ELSE border_blocked
           /\ border_not_blocked' = IF border_ok THEN border_not_blocked + border.not_blocked
                                    ELSE border_not_blocked
           /\ host_blocked' = IF host_ok THEN host_blocked + host.blocked ELSE host_blocked
           /\ host_not_blocked' = IF host_ok THEN host_not_blocked + host.not_blocked
                                  ELSE host_not_blocked
           /\ payloads_list' = IF host_ok THEN AppendRow(payloads_list, PayloadData(payload))
                               ELSE payloads_list
           /\ exc' = PayloadExc(payload)
           /\ pc' = IF PayloadExc(payload) # NoExc THEN "pj_except" ELSE "pj_loop"
    /\ UNCHANGED <<entry, file, file_exists, data, payloads_meta, log, ret,
                   report_gen_calls, Story, multiBuild_calls,
                   parse_json_calls,
                   ft_vars, rg_vars, main_vars>>

\* the loop is exhausted (or was skipped): payloads_meta is filled in
ParseJsonMeta ==
    /\ \/ pc = "pj_meta"
       \/ pc = "pj_loop" /\ num_payloads = Len(data.payloads)
    /\ payloads_meta' = PayloadsMeta(border_blocked, border_not_blocked, host_blocked,
                                     host_not_blocked, num_payloads)
    /\ pc' = "pj_return"
    /\ UNCHANGED <<entry, file, file_exists, data, border_blocked, border_not_blocked,
                   host_blocked, host_not_blocked, num_payloads, payloads_list, exc, log,
                   ret, report_gen_calls, Story, multiBuild_calls,
                   parse_json_calls,
                   ft_vars, rg_vars, main_vars>>

\* `except Exception as e: LOGGER.exception(str(e))`
ParseJsonExcept ==
    /\ pc = "pj_except"
    /\ log' = Append(log, [level |-> "exception", type |-> exc.type, arg |-> exc.arg])
    /\ exc' = NoExc
    /\ pc' = "pj_return"
    /\ UNCHANGED <<entry, file, file_exists, data, pj_locals, ret, report_gen_calls, Story,
                   multiBuild_calls,
                   parse_json_calls,
                   ft_vars, rg_vars, main_vars>>

\* `return payloads_meta, payloads_list`
ParseJsonReturn ==
    /\ pc = "pj_return"
    /\ pc' = IF entry = "parse_json" THEN "done" ELSE "gr_report_gen"
    /\ UNCHANGED <<entry, file, file_exists, data, pj_locals, exc, log, ret,
                   report_gen_calls, Story, multiBuild_calls,
                   parse_json_calls,
                   ft_vars, rg_vars, main_vars>>

(* --------------------------- format_table ------------------------------ *)
\* Paragraph(str(cell), style): a flowable object wrapping the text
Paragraph(text, style) == [kind |-> "Paragraph", text |-> text, style |-> style]

\* a cell handed to the table as the raw value
Raw(value) == [kind |-> "raw", text |-> value, style |-> "None"]

\* `value == literal` on a cell of the table data: a Paragraph object is not
\* equal to any string, a raw value is compared as a string
CellEquals(cell, literal) == cell.kind = "raw" /\ cell.text = literal

\* header_row: one Paragraph per column name, in column order
HeaderRow(columns, header_style) ==
    [j \in 1..Len(columns) |-> Paragraph(columns[j], header_style)]

\* current_row: the cells of one row, wrapped where the column has a style
BodyRow(row, styles) ==
    [j \in 1..Len(row) |->
        IF styles[j] # "None" THEN Paragraph(row[j], styles[j]) ELSE Raw(row[j])]

\* column_style_list[current_cell] past the end of the list
FormatTableExc(frame, styles) ==
    IF \E i \in 1..Len(frame.rows) : Len(frame.rows[i]) > Len(styles)
    THEN Exc("IndexError", "list index out of range")
    ELSE NoExc

\* TableData with the header row placed after the body
TableData_HeaderLast(header_row, body) == body \o << header_row >>

\* data = header_row + data
TableData(header_row, body) == << header_row >> \o body

\* the TEXTCOLOR commands added by the loop over data, as (column, row) pairs
\* counted from 0
TextColors(cells) ==
    UNION { { [column |-> j - 1, row |-> i - 1, colour |-> "red"] :
                j \in {c \in 1..Len(cells[i]) : CellEquals(cells[i][c], "Not Blocked")} }
            \cup
            { [column |-> j - 1, row |-> i - 1, colour |-> "green"] :
                j \in {c \in 1..Len(cells[i]) : CellEquals(cells[i][c], "Blocked")} }
            : i \in 1..Len(cells) }

\* IsEmptyFrame testing the columns instead of the rows
IsEmptyFrame_NoColumns(frame) == Len(frame.columns) = 0

\* len(df) == 0
IsEmptyFrame(frame) == Len(frame.rows) = 0

NoTable == [exc |-> NoExc, kind |-> "none", cellvalues |-> << >>, colWidths |-> << >>,
            textcolor |-> {}, label |-> ""]

\* format_table(df, header_style, column_widths, column_style_list)
FormatTable(frame, header_style, widths, styles) ==
    IF FormatTableExc(frame, styles) # NoExc
    THEN [NoTable EXCEPT !.exc = FormatTableExc(frame, styles)]
    ELSE LET cells == TableData(HeaderRow(frame.columns, header_style),
                                [i \in 1..Len(frame.rows) |-> BodyRow(frame.rows[i], styles)])
         IN  [exc |-> NoExc,
              kind |-> IF IsEmptyFrame(frame) THEN "KeepTogether" ELSE "Table",
              cellvalues |-> cells,
              colWidths |-> widths,
              textcolor |-> TextColors(cells),
              label |-> IF IsEmptyFrame(frame) THEN "No Data to Report" ELSE ""]

\* a caller invokes format_table
FormatTableCall ==
    /\ pc = "ft_call"
    /\ table' = FormatTable(df, "header_style", column_widths, column_style_list)
    /\ exc' = FormatTable(df, "header_style", column_widths, column_style_list).exc
    /\ pc' = "done"
    /\ UNCHANGED <<entry, file, file_exists, data, pj_locals, log, ret, parse_json_calls,
                   report_gen_calls, Story, multiBuild_calls, df, column_widths,
                   column_style_list, rg_vars, main_vars>>

(* ---------------------------- report_gen ------------------------------- *)
Block(kind, id) == [kind |-> kind, id |-> id]

\* StoryHead with the template switch placed after the first page break
StoryHead_SwitchAfterBreak ==
    << Block("Image", "TitlePage.png"), Block("Spacer", "point24"),
       Block("Paragraph", "cover_heading"), Block("Spacer", "point24"),
       Block("PageBreak", "1"), Block("NextPageTemplate", "content_page"),
       Block("Paragraph", "TPT Report"), Block("Table", "metadata"),
       Block("Spacer", "point30"), Block("Table", "security_reference"),
       Block("Spacer", "point30"), Block("Paragraph", "DESCRIPTION"),
       Block("Paragraph", "description_body"), Block("Spacer", "point12"),
       Block("Image", "Picture2.png"), Block("Paragraph", "Figure 1"),
       Block("Spacer", "point12"), Block("Paragraph", "PHISHING CONTROLS ASSESSMENT"),
       Block("Paragraph", "assessment_body"), Block("Spacer", "point12") >>

\* blocks appended ahead of the paragraph that reads payloads_meta
StoryHead ==
    << Block("Image", "TitlePage.png"), Block("Spacer", "point24"),
       Block("Paragraph", "cover_heading"), Block("Spacer", "point24"),
       Block("NextPageTemplate", "content_page"), Block("PageBreak", "1"),
       Block("Paragraph", "TPT Report"), Block("Table", "metadata"),
       Block("Spacer", "point30"), Block("Table", "security_reference"),
       Block("Spacer", "point30"), Block("Paragraph", "DESCRIPTION"),
       Block("Paragraph", "description_body"), Block("Spacer", "point12"),
       Block("Image", "Picture2.png"), Block("Paragraph", "Figure 1"),
       Block("Spacer", "point12"), Block("Paragraph", "PHISHING CONTROLS ASSESSMENT"),
       Block("Paragraph", "assessment_body"), Block("Spacer", "point12") >>

\* blocks appended from the results table to the end of the story
StoryTail ==
    << Block("Table", "results"), Block("Paragraph", "Figure 2"),
       Block("Spacer", "point12"),
       Block("Paragraph", "CONCLUSION / RECOMMENDED MITIGATION"),
       Block("Paragraph", "conclusion_body") >>

\* NarrativeExc reading the counters with a default instead of a subscript
NarrativeExc_Defaulted(tpt_meta) == NoExc

\* the subscript reads of the narrative paragraph's f-string
NarrativeExc(tpt_meta) ==
    IF "num_payloads" \notin DOMAIN tpt_meta THEN Exc("KeyError", "num_payloads")
    ELSE IF "payloads_not_blocked" \notin DOMAIN tpt_meta
         THEN Exc("KeyError", "payloads_not_blocked")
         ELSE NoExc

\* d[k] of a dict; the KeyError of a missing key is raised by NarrativeExc
Subscript(d, k) == IF k \in DOMAIN d THEN d[k] ELSE "KeyError"

\* the two counters the narrative paragraph's f-string formats
NarrativeValues(tpt_meta) ==
    << Subscript(tpt_meta, "num_payloads"), Subscript(tpt_meta, "payloads_not_blocked") >>

\* values secrets.token_hex(...)[:REPORT_KEY_LENGTH] may return
Keys == {"key1", "key2"}

\* MyDocTemplate.__init__ keeping a TPT_REPORT_KEY that is already set
MyDocTemplateInit_KeepsEnviron(key, env) ==
    [environ |-> IF env = "None" THEN key ELSE env, encrypt |-> key]

\* MyDocTemplate.__init__(filename, report_key): the environment variable and
\* doc.encrypt after it ran, given the variable's value before
MyDocTemplateInit(key, env) == [environ |-> key, encrypt |-> key]

\* os.environ.get('TPT_REPORT_KEY') as printed on the last line of report_gen
PrintedKey(env) == env

ResultsColumns == << "Payload", "C2 Protocol", "Border Protection", "Host Protection" >>

\* pd.DataFrame.from_records(payloads_list): the columns are the keys of the
\* row dicts in insertion order, none for an empty list
FromRecords(rows) ==
    IF rows = << >> THEN [columns |-> << >>, rows |-> << >>]
    ELSE [columns |-> ResultsColumns,
          rows |-> [i \in 1..Len(rows) |->
                       [j \in 1..Len(ResultsColumns) |-> rows[i][ResultsColumns[j]]]]]

\* report_gen from its entry through the narrative paragraph and page break
ReportGenStory ==
    /\ pc = "gr_report_gen"
    /\ report_gen_calls' = report_gen_calls + 1
    /\ \E key \in Keys :
          /\ report_key' = key
          /\ doc_key' = key
          /\ environ' = MyDocTemplateInit(key, environ).environ
          /\ doc_encrypt' = MyDocTemplateInit(key, environ).encrypt
    /\ IF NarrativeExc(payloads_meta) # NoExc
       THEN /\ Story' = StoryHead
            /\ narrative' = << >>
            /\ exc' = NarrativeExc(payloads_meta)
            /\ pc' = IF entry = "report_gen" THEN "rg_raised" ELSE "gr_raise"
       ELSE /\ Story' = StoryHead \o << Block("Paragraph", "narrative"),
                                        Block("PageBreak", "2") >>
            /\ narrative' = NarrativeValues(payloads_meta)
            /\ exc' = NoExc
            /\ pc' = "rg_table"
    /\ results_table' = NoTable
    /\ UNCHANGED <<entry, file, file_exists, data, pj_locals, log, ret, multiBuild_calls,
                   parse_json_calls, stdout, built_story, runs,
                   ft_vars, main_vars>>

\* the results table and the closing blocks
ReportGenTable ==
    /\ pc = "rg_table"
    /\ LET t == FormatTable(FromRecords(payloads_list), "table_header",
                            << "inch", "inch", "inch", "inch" >>,
                            << "body", "None", "None", "None" >>)
       IN  IF t.exc # NoExc
           THEN /\ exc' = t.exc
                /\ pc' = IF entry = "report_gen" THEN "rg_raised" ELSE "gr_raise"
                /\ UNCHANGED <<Story, results_table>>
           ELSE /\ results_table' = t
                /\ Story' = Story \o StoryTail
                /\ pc' = "rg_build"
                /\ exc' = exc
    /\ UNCHANGED <<entry, file, file_exists, data, pj_locals, log, ret,
                   report_gen_calls, multiBuild_calls, parse_json_calls,
                   report_key, environ, doc_key, doc_encrypt, stdout, narrative,
                   built_story, runs, ft_vars, main_vars>>

\* doc.multiBuild(Story), the key is printed, doc is returned
ReportGenBuild ==
    /\ pc = "rg_build"
    /\ multiBuild_calls' = multiBuild_calls + 1
    /\ built_story' = Story
    /\ stdout' = Append(stdout, PrintedKey(environ))
    /\ pc' = IF entry = "report_gen" THEN "rg_returned" ELSE "gr_true"
    /\ UNCHANGED <<entry, file, file_exists, data, pj_locals, exc, log, ret,
                   report_gen_calls, Story, parse_json_calls,
                   report_key, environ, doc_key, doc_encrypt, narrative, results_table,
                   runs, ft_vars, main_vars>>

\* rows a direct caller of report_gen passes
CallerRows ==
    { << >> } \cup { << PayloadData(p) >> :
                       p \in {q \in FullPayloads : /\ q["border_protection"] \in {"B", "N"}
                                                   /\ q["host_protection"] = "N"
                                                   /\ q["payload_description"] = "Test payload"} }

\* counters a direct caller of report_gen passes in tpt_info["payloads_meta"]
CallerMetas == { EmptyMeta, PayloadsMeta(0, 1, 0, 1, 1) }

\* a caller invokes report_gen(tpt_info, payloads_list), again after it ended
ReportGenCall ==
    /\ entry = "report_gen"
    /\ pc \in {"rg_caller", "rg_returned", "rg_raised"}
    /\ runs < MaxRuns
    /\ runs' = runs + 1
    /\ payloads_meta' \in CallerMetas
    /\ payloads_list' \in CallerRows
    /\ exc' = NoExc
    /\ pc' = "gr_report_gen"
    /\ UNCHANGED <<entry, file, file_exists, data, border_blocked, border_not_blocked,
                   host_blocked, host_not_blocked, num_payloads, log, ret,
                   parse_json_calls, report_gen_calls, Story, multiBuild_calls,
                   report_key, environ, doc_key, doc_encrypt, stdout, narrative,
                   results_table, built_story, ft_vars, main_vars>>

(* ------------------------- load_json_file ------------------------------ *)
\* what load_json_file returns: the parsed document, None when open() fails
LoadResult(exists, content) == IF exists THEN content ELSE None

\* data = load_json_file(json_file_path)
LoadJsonFile ==
    /\ pc = "gr_load"
    /\ data' = LoadResult(file_exists, file)
    /\ log' = IF file_exists THEN log
              ELSE Append(log, [level |-> "error", type |-> "FileNotFoundError",
                                arg |-> "Failure to open JSON file"])
    /\ pc' = "gr_branch"
    /\ UNCHANGED <<entry, file, file_exists, pj_locals, exc, ret, report_gen_calls, Story,
                   multiBuild_calls,
                   parse_json_calls,
                   ft_vars, rg_vars, main_vars>>

(* ------------------------- generate_reports ---------------------------- *)
\* `if data:` taken: parse_json(data) is called
GenerateReportsParse ==
    /\ pc = "gr_branch"
    /\ Truthy(data)
    /\ pc' = "pj_enter"
    /\ UNCHANGED <<entry, file, file_exists, data, pj_locals, exc, log, ret,
                   report_gen_calls, Story, multiBuild_calls,
                   parse_json_calls,
                   ft_vars, rg_vars, main_vars>>

\* GenerateReportsNoData returning True
GenerateReportsNoData_ReturnsTrue ==
    /\ pc = "gr_branch"
    /\ ~Truthy(data)
    /\ ret' = "True"
    /\ pc' = IF entry = "main" THEN "main_after" ELSE "done"
    /\ UNCHANGED <<entry, file, file_exists, data, pj_locals, exc, log, report_gen_calls,
                   Story, multiBuild_calls, parse_json_calls,
                   ft_vars, rg_vars, main_vars>>

\* `else: return False`
GenerateReportsNoData ==
    /\ pc = "gr_branch"
    /\ ~Truthy(data)
    /\ ret' = "False"
    /\ pc' = IF entry = "main" THEN "main_after" ELSE "done"
    /\ UNCHANGED <<entry, file, file_exists, data, pj_locals, exc, log, report_gen_calls,
                   Story, multiBuild_calls,
                   parse_json_calls,
                   ft_vars, rg_vars, main_vars>>

\* report_gen returned: `return True`
GenerateReportsTrue ==
    /\ pc = "gr_true"
    /\ ret' = "True"
    /\ pc' = IF entry = "main" THEN "main_after" ELSE "done"
    /\ UNCHANGED <<entry, file, file_exists, data, pj_locals, exc, log, report_gen_calls,
                   Story, multiBuild_calls,
                   parse_json_calls,
                   ft_vars, rg_vars, main_vars>>

\* report_gen raised: nothing in generate_reports catches it
GenerateReportsRaise ==
    /\ pc = "gr_raise"
    /\ ret' = "raised"
    /\ pc' = IF entry = "main" THEN "main_after" ELSE "done"
    /\ UNCHANGED <<entry, file, file_exists, data, pj_locals, exc, log, report_gen_calls,
                   Story, multiBuild_calls,
                   parse_json_calls,
                   ft_vars, rg_vars, main_vars>>

(* -------------------------------- main --------------------------------- *)
\* values of --log-level and DOMAIN_TESTED that docopt hands to main
LogLevelArgs == {"info", "DEBUG", "emergency"}
DomainArgs == {"cisa.gov", "cisa"}

LogLevels == {"debug", "info", "warning", "error", "critical"}

\* str.lower on the values of LogLevelArgs
Lower(s) == IF s = "DEBUG" THEN "debug" ELSE s

\* whether validators.domain accepts the value
DomainValid(d) == d = "cisa.gov"

\* ValidateArgs with the domain validated ahead of the schema
ValidateArgs_DomainFirst(a) ==
    IF ~DomainValid(a.domain) THEN "ValueError"
    ELSE IF Lower(a.log_level) \notin LogLevels THEN "SchemaError"
    ELSE "ok"

\* the try block of main: schema.validate(args), then validators.domain(...);
\* the exception that leaves the block, "ok" when none does
ValidateArgs(a) ==
    IF Lower(a.log_level) \notin LogLevels THEN "SchemaError"
    ELSE IF ~DomainValid(a.domain) THEN "ValueError"
    ELSE "ok"

SuccessMsg == "TPT report was generated successfully"

\* validation and the two except clauses
MainValidate ==
    /\ pc = "main_start"
    /\ LET outcome == ValidateArgs(args)
       IN  /\ pc' = IF outcome = "ok" THEN "main_setup" ELSE "exited"
           /\ exit_code' = CASE outcome = "SchemaError" -> 1
                             [] outcome = "ValueError" -> 2
                             [] OTHER -> exit_code
           /\ log' = IF outcome = "ok" THEN log
                     ELSE Append(log, [level |-> "stderr", type |-> outcome, arg |-> ""])
    /\ UNCHANGED <<entry, file, file_exists, data, pj_locals, exc, ret, parse_json_calls,
                   report_gen_calls, Story, multiBuild_calls, args, output_dir_exists,
                   generate_reports_calls, ft_vars, rg_vars>>

\* logging set-up, creation of the output directory, the call of generate_reports
MainSetup ==
    /\ pc = "main_setup"
    /\ output_dir_exists' = TRUE
    /\ generate_reports_calls' = generate_reports_calls + 1
    /\ pc' = "gr_load"
    /\ UNCHANGED <<entry, file, file_exists, data, pj_locals, exc, log, ret,
                   parse_json_calls, report_gen_calls, Story, multiBuild_calls, args,
                   exit_code, ft_vars, rg_vars>>

\* after generate_reports: the success message when it returned True, then
\* logging.shutdown() and the return of main; an exception that
\* generate_reports let through ends the process with status 1
MainFinish ==
    /\ pc = "main_after"
    /\ log' = IF ret = "True"
              THEN Append(log, [level |-> "info", type |-> "none", arg |-> SuccessMsg])
              ELSE log
    /\ exit_code' = IF ret = "raised" THEN 1 ELSE 0
    /\ pc' = "exited"
    /\ UNCHANGED <<entry, file, file_exists, data, pj_locals, exc, ret, parse_json_calls,
                   report_gen_calls, Story, multiBuild_calls, args, output_dir_exists,
                   generate_reports_calls, ft_vars, rg_vars>>

(* --------------------------- specification ----------------------------- *)
\* parse_json's locals and the driver's state before anything ran
PipelineIdle ==
    /\ border_blocked = 0 /\ border_not_blocked = 0
    /\ host_blocked = 0 /\ host_not_blocked = 0
    /\ num_payloads = 0 /\ payloads_list = << >> /\ payloads_meta = EmptyMeta
    /\ log = << >>
    /\ ret = "none"
    /\ parse_json_calls = 0

FormatTableIdle ==
    /\ df = [columns |-> << >>, rows |-> << >>]
    /\ column_widths = << >> /\ column_style_list = << >>
    /\ table = NoTable

ReportGenIdle ==
    /\ report_key = "" /\ environ = "None" /\ doc_key = "" /\ doc_encrypt = ""
    /\ stdout = << >>
    /\ narrative = << >> /\ results_table = NoTable /\ built_story = << >>
    /\ report_gen_calls = 0 /\ Story = << >> /\ multiBuild_calls = 0
    /\ runs = 0

MainIdle ==
    /\ args = [log_level |-> "info", domain |-> "cisa.gov"]
    /\ output_dir_exists = TRUE
    /\ generate_reports_calls = 0
    /\ exit_code = -1

Init ==
    /\ entry \in {"parse_json", "generate_reports"}
    /\ \/ /\ entry = "parse_json"
          /\ data \in Documents
          /\ file = None /\ file_exists = FALSE
          /\ pc = "pj_enter"
       \/ /\ entry = "generate_reports"
          /\ file_exists \in BOOLEAN
          /\ file \in (IF file_exists THEN Documents ELSE {None})
          /\ data = None
          /\ pc = "gr_load"
    /\ exc = NoExc
    /\ PipelineIdle /\ FormatTableIdle /\ ReportGenIdle /\ MainIdle

\* a direct call of format_table on a frame, a width list and a style list
InitTable ==
    /\ entry = "format_table"
    /\ pc = "ft_call"
    /\ df \in Frames
    /\ column_widths \in WidthLists(Len(df.columns))
    /\ column_style_list \in StyleLists(Len(df.columns))
    /\ table = NoTable
    /\ file = None /\ file_exists = FALSE /\ data = None
    /\ exc = NoExc
    /\ PipelineIdle /\ ReportGenIdle /\ MainIdle

Next ==
    \/ LoadJsonFile
    \/ GenerateReportsParse
    \/ GenerateReportsNoData
    \/ ParseJsonEnter
    \/ ParseJsonRecord
    \/ ParseJsonMeta
    \/ ParseJsonExcept
    \/ ParseJsonReturn
    \/ ReportGenStory
    \/ ReportGenTable
    \/ ReportGenBuild
    \/ GenerateReportsTrue
    \/ GenerateReportsRaise

Spec == Init /\ [][Next]_vars

\* a process in which report_gen is called directly, TPT_REPORT_KEY being
\* unset or left over from before
InitReportGen ==
    /\ entry = "report_gen"
    /\ pc = "rg_caller"
    /\ file = None /\ file_exists = FALSE /\ data = None
    /\ exc = NoExc
    /\ PipelineIdle /\ FormatTableIdle /\ MainIdle
    /\ report_key = "" /\ doc_key = "" /\ doc_encrypt = ""
    /\ environ \in {"None", "stale"}
    /\ stdout = << >>
    /\ narrative = << >> /\ results_table = NoTable /\ built_story = << >>
    /\ report_gen_calls = 0 /\ Story = << >> /\ multiBuild_calls = 0
    /\ runs = 0

NextReportGen ==
    \/ ReportGenCall
    \/ ReportGenStory
    \/ ReportGenTable
    \/ ReportGenBuild

SpecReportGen == InitReportGen /\ [][NextReportGen]_vars

\* the payload records of the files main is run on: a well-formed one and
\* one with unrecognized codes
MainPayloads == BasePayloads

MainDocuments ==
    {None, Dict({}, << >>)}
      \cup {Dict({"payloads"}, ps) : ps \in SeqsUpTo(MainPayloads, MaxPayloads)}

\* the command line: parsed arguments, the file at JSON_FILE_PATH, the
\* output directory present or not
InitMain ==
    /\ entry = "main"
    /\ pc = "main_start"
    /\ args \in [log_level : LogLevelArgs, domain : DomainArgs]
    /\ output_dir_exists \in BOOLEAN
    /\ file_exists \in BOOLEAN
    /\ file \in (IF file_exists THEN MainDocuments ELSE {None})
    /\ data = None
    /\ exc = NoExc
    /\ generate_reports_calls = 0
    /\ exit_code = -1
    /\ PipelineIdle /\ FormatTableIdle /\ ReportGenIdle

NextMain ==
    \/ MainValidate
    \/ MainSetup
    \/ MainFinish
    \/ Next

SpecMain == InitMain /\ [][NextMain]_vars

NextTable == FormatTableCall

SpecTable == InitTable /\ [][NextTable]_vars

(* ------------------------------ properties ----------------------------- *)
\* the payload sequence parse_json iterates over (empty when there is none)
Input == IF data.kind = "dict" /\ "payloads" \in data.keys THEN data.payloads ELSE << >>

Recognized == {"B", "N"}

\* a record that carries the four fields with recognized codes
Good(p) ==
    /\ FullKeys \subseteq DOMAIN p
    /\ p["border_protection"] \in Recognized
    /\ p["host_protection"] \in Recognized

\* a document whose aggregation meets no bad record and no missing list
Aggregable(d) ==
    \/ d.kind = "None"
    \/ d.kind = "dict" /\ d.keys = {}
    \/ d.kind = "dict" /\ "payloads" \in d.keys
         /\ \A i \in 1..Len(d.payloads) : Good(d.payloads[i])

HasCounters == DOMAIN payloads_meta = MetaKeys

\* C1: whenever parse_json returns counters, border_blocked + border_not_blocked
\* equals num_payloads and host_blocked + host_not_blocked equals num_payloads.
C1_LeafCountersSumToTotal ==
    (pc = "pj_return" /\ DOMAIN payloads_meta # {}) =>
        /\ HasCounters
        /\ payloads_meta["border_blocked"] + payloads_meta["border_not_blocked"]
             = payloads_meta["num_payloads"]
        /\ payloads_meta["host_blocked"] + payloads_meta["host_not_blocked"]
             = payloads_meta["num_payloads"]

\* two records aggregated, the border counters split 1/1 and the host counters 2/0
C1_Witness ==
    /\ pc = "pj_return"
    /\ HasCounters
    /\ payloads_meta["num_payloads"] = 2
    /\ payloads_meta["border_blocked"] = 1 /\ payloads_meta["border_not_blocked"] = 1
    /\ payloads_meta["host_blocked"] = 2 /\ payloads_meta["host_not_blocked"] = 0

\* C2 as stated: for every input, bad records included, parse_json returns
\* counters with payloads_blocked + payloads_not_blocked = 2 * num_payloads.
C2_Original ==
    pc = "pj_return" =>
        /\ HasCounters
        /\ payloads_meta["payloads_blocked"] + payloads_meta["payloads_not_blocked"]
             = 2 * payloads_meta["num_payloads"]

\* C2 amended: on every input whose aggregation raises nothing the returned
\* counters satisfy payloads_blocked + payloads_not_blocked = 2 * num_payloads,
\* with payloads_blocked = border_blocked + host_blocked and payloads_not_blocked
\* = border_not_blocked + host_not_blocked; on an input with a bad record or no
\* payloads list the returned payloads_meta is empty and carries no counter.
C2_TotalsSumToTwiceTotal ==
    pc = "pj_return" =>
        IF Aggregable(data)
        THEN /\ HasCounters
             /\ payloads_meta["payloads_blocked"] + payloads_meta["payloads_not_blocked"]
                  = 2 * payloads_meta["num_payloads"]
             /\ payloads_meta["payloads_blocked"]
                  = payloads_meta["border_blocked"] + payloads_meta["host_blocked"]
             /\ payloads_meta["payloads_not_blocked"]
                  = payloads_meta["border_not_blocked"] + payloads_meta["host_not_blocked"]
        ELSE DOMAIN payloads_meta = {}

\* two records aggregated with every border outcome blocked and every host
\* outcome not blocked
C2_Witness ==
    /\ pc = "pj_return"
    /\ Aggregable(data)
    /\ HasCounters
    /\ payloads_meta["num_payloads"] = 2
    /\ payloads_meta["payloads_blocked"] = 2
    /\ payloads_meta["border_blocked"] = 2
    /\ payloads_meta["payloads_not_blocked"] = 2

\* C3: every returned row is the classification of the record at its position:
\* border "N" gives "Not Blocked", "B" gives "Blocked", likewise for host, and
\* Payload / C2 Protocol are the record's description and protocol; the single
\* record (N, B) gives border_not_blocked = 1 and host_blocked = 1.
C3_FixedTwoEntryMapping ==
    pc = "pj_return" =>
        /\ \A i \in 1..Len(payloads_list) :
             LET p == Input[i]
                 r == payloads_list[i]
             IN  /\ DOMAIN r = RowKeys
                 /\ p["border_protection"] = "N" => r["Border Protection"] = "Not Blocked"
                 /\ p["border_protection"] = "B" => r["Border Protection"] = "Blocked"
                 /\ p["host_protection"] = "N" => r["Host Protection"] = "Not Blocked"
                 /\ p["host_protection"] = "B" => r["Host Protection"] = "Blocked"
                 /\ r["Payload"] = p["payload_description"]
                 /\ r["C2 Protocol"] = p["c2_protocol "]
        /\ (/\ Len(Input) = 1 /\ Good(Input[1])
            /\ Input[1]["border_protection"] = "N"
            /\ Input[1]["host_protection"] = "B")
           => /\ Len(payloads_list) = 1
              /\ HasCounters
              /\ payloads_meta["border_not_blocked"] = 1 /\ payloads_meta["host_blocked"] = 1
              /\ payloads_meta["border_blocked"] = 0 /\ payloads_meta["host_not_blocked"] = 0

\* the record (N, B) followed by the record (B, B), both classified
C3_Witness ==
    /\ pc = "pj_return"
    /\ Len(payloads_list) = 2
    /\ Input[1]["border_protection"] = "N" /\ Input[1]["host_protection"] = "B"
    /\ payloads_list[1]["Border Protection"] = "Not Blocked"
    /\ payloads_list[1]["Host Protection"] = "Blocked"
    /\ Input[2]["border_protection"] = "B" /\ Input[2]["host_protection"] = "B"
    /\ payloads_list[2]["Border Protection"] = "Blocked"
    /\ payloads_list[2]["Host Protection"] = "Blocked"

ZeroMeta == [k \in MetaKeys |-> 0]

\* the logged record of a ValueError carrying message m
ValueErrorLogged(m) == [level |-> "exception", type |-> "ValueError", arg |-> m]

\* record i is the first record of the input that is not Good
FirstBad(i) == /\ i \in 1..Len(Input)
               /\ ~Good(Input[i])
               /\ \A j \in 1..(i - 1) : Good(Input[j])

\* C4 as stated: for null data, an empty document, an empty payloads list and
\* a document with no payloads list, parse_json returns seven zero counters and
\* no rows.
C4_EmptyOrAbsentIsZero ==
    (pc = "pj_return" /\ Input = << >>) =>
        /\ payloads_meta = ZeroMeta
        /\ payloads_list = << >>

\* C5: the first bad record, when it carries the four fields, fails with the
\* ValueError that names border_protection if its border code is unrecognized
\* (whatever its host code), and with the one that names host_protection if
\* its border code is recognized and its host code is not; it gets no row and
\* no counters are returned.
C5_UnrecognizedCodeFails ==
    pc = "pj_return" =>
        \A i \in 1..Len(Input) :
            (FirstBad(i) /\ FullKeys \subseteq DOMAIN Input[i]) =>
                /\ Input[i]["border_protection"] \notin Recognized
                     => log = << ValueErrorLogged(BorderMsg) >>
                /\ (/\ Input[i]["border_protection"] \in Recognized
                    /\ Input[i]["host_protection"] \notin Recognized)
                     => log = << ValueErrorLogged(HostMsg) >>
                /\ Len(payloads_list) < i
                /\ DOMAIN payloads_meta = {}

\* a good record, then a record with an unrecognized border code and a valid
\* host code, has failed on the border field
C5_Witness ==
    /\ pc = "pj_return"
    /\ Len(Input) = 2
    /\ Good(Input[1])
    /\ FullKeys \subseteq DOMAIN Input[2]
    /\ Input[2]["border_protection"] = "X"
    /\ Input[2]["host_protection"] = "B"
    /\ log = << ValueErrorLogged(BorderMsg) >>

\* C6 as stated: parse_json returns either counters and one row per input
\* record, or (when some record is bad) no counters and no rows at all.
C6_AllOrNothing ==
    pc = "pj_return" =>
        \/ /\ HasCounters
           /\ Len(payloads_list) = Len(Input)
           /\ payloads_meta["num_payloads"] = Len(Input)
        \/ /\ DOMAIN payloads_meta = {}
           /\ payloads_list = << >>

\* C7 as stated: generate_reports returns False whenever the loaded document
\* holds a record with an unrecognized code or a missing field.
C7_BadDataReturnsFalse ==
    (/\ entry = "generate_reports" /\ pc = "done"
     /\ \E i \in 1..Len(Input) : ~Good(Input[i]))
        => ret = "False"

\* C8: doc.multiBuild runs only for a file that exists, loads to non-empty data
\* and aggregates without a bad record, and then only with a row for every
\* record and the counters of all of them; on every other path it never runs.
C8_NoBuildOnFailure ==
    /\ (entry = "generate_reports" /\ (~file_exists \/ ~Truthy(file) \/ ~Aggregable(file)))
         => multiBuild_calls = 0
    /\ multiBuild_calls > 0
         => /\ Len(payloads_list) = Len(Input)
            /\ HasCounters
            /\ payloads_meta["num_payloads"] = Len(Input)

\* generate_reports has ended on a document whose second record is bad: one
\* row was produced, report_gen was entered and multiBuild never ran
C8_Witness ==
    /\ entry = "generate_reports" /\ pc = "done"
    /\ file_exists /\ Truthy(file) /\ ~Aggregable(file)
    /\ Len(payloads_list) = 1
    /\ report_gen_calls = 1
    /\ multiBuild_calls = 0

\* C9: with the file missing, load_json_file yields None without an exception
\* and generate_reports returns False having entered neither parse_json nor
\* report_gen; with a file that loads to non-empty data whose aggregation
\* succeeds, generate_reports enters report_gen exactly once and returns True.
C9_MissingFileAndSuccess ==
    /\ (entry = "generate_reports" /\ ~file_exists /\ pc # "gr_load")
         => /\ data = None /\ exc = NoExc
            /\ parse_json_calls = 0 /\ report_gen_calls = 0
            /\ ret \in {"none", "False"}
    /\ (entry = "generate_reports" /\ ~file_exists /\ pc = "done") => ret = "False"
    /\ (/\ entry = "generate_reports" /\ pc = "done"
        /\ file_exists /\ Truthy(file) /\ Aggregable(file))
         => /\ report_gen_calls = 1
            /\ ret = "True"
            /\ exc = NoExc

\* generate_reports has ended for a missing file
C9_Witness ==
    /\ entry = "generate_reports" /\ pc = "done"
    /\ ~file_exists
    /\ ret = "False"
    /\ Len(log) = 1 /\ log[1].type = "FileNotFoundError"

\* generate_reports has ended for a file with two good records
C9_WitnessSuccess ==
    /\ entry = "generate_reports" /\ pc = "done"
    /\ file_exists /\ Len(file.payloads) = 2 /\ Aggregable(file)
    /\ ret = "True"

\* C10: when aggregation succeeds the rows are as many as num_payloads and as
\* the input records, and row i classifies input record i.
C10_RowsInInputOrder ==
    (pc = "pj_return" /\ Aggregable(data)) =>
        /\ HasCounters
        /\ Len(payloads_list) = payloads_meta["num_payloads"]
        /\ Len(payloads_list) = Len(Input)
        /\ \A i \in 1..Len(Input) :
             /\ payloads_list[i]["Payload"] = Input[i]["payload_description"]
             /\ payloads_list[i]["C2 Protocol"] = Input[i]["c2_protocol "]
             /\ payloads_list[i]["Border Protection"]
                  = (IF Input[i]["border_protection"] = "B" THEN "Blocked" ELSE "Not Blocked")
             /\ payloads_list[i]["Host Protection"]
                  = (IF Input[i]["host_protection"] = "B" THEN "Blocked" ELSE "Not Blocked")

\* two different good records aggregated, the second input record second
C10_Witness ==
    /\ pc = "pj_return" /\ Aggregable(data)
    /\ Len(Input) = 2
    /\ Input[1]["payload_description"] = "Second payload"
    /\ Input[2]["payload_description"] = "Test payload"
    /\ Input[1]["border_protection"] # Input[2]["border_protection"]
    /\ Len(payloads_list) = 2
    /\ payloads_list[2]["Payload"] = "Test payload"

\* a record that would be Good if either spelling of the protocol key counted
GoodEitherSpelling(p) ==
    /\ {"payload_description", "border_protection", "host_protection"} \subseteq DOMAIN p
    /\ "c2_protocol " \in DOMAIN p \/ "c2_protocol" \in DOMAIN p
    /\ p["border_protection"] \in Recognized
    /\ p["host_protection"] \in Recognized

KeyErrorLogged(k) == [level |-> "exception", type |-> "KeyError", arg |-> k]

\* C17 as stated: records that store the protocol under "c2_protocol" or under
\* "c2_protocol " (and are otherwise valid) are all aggregated.
C17_BothSpellingsAggregate ==
    (/\ pc = "pj_return" /\ Truthy(data)
     /\ \A i \in 1..Len(Input) : GoodEitherSpelling(Input[i]))
        => /\ HasCounters
           /\ Len(payloads_list) = Len(Input)

\* C17 amended: parse_json reads the protocol only under "c2_protocol " (with
\* the trailing space): a valid record that stores it there is aggregated with
\* C2 Protocol equal to the stored value; the first record that stores it under
\* "c2_protocol" instead fails with KeyError('c2_protocol '), gets no row, and
\* no counters are returned.
C17_TrailingSpaceKeyOnly ==
    pc = "pj_return" =>
        \A i \in 1..Len(Input) :
            (\A j \in 1..(i - 1) : Good(Input[j])) =>
                /\ Good(Input[i]) =>
                     /\ Len(payloads_list) >= i
                     /\ payloads_list[i]["C2 Protocol"] = Input[i]["c2_protocol "]
                /\ (/\ "payload_description" \in DOMAIN Input[i]
                    /\ "c2_protocol" \in DOMAIN Input[i]
                    /\ "c2_protocol " \notin DOMAIN Input[i]) =>
                     /\ log = << KeyErrorLogged("c2_protocol ") >>
                     /\ Len(payloads_list) = i - 1
                     /\ DOMAIN payloads_meta = {}

\* a record with the trailing-space key was aggregated and the next record,
\* otherwise valid but with the key "c2_protocol", ended the pass
C17_Witness ==
    /\ pc = "pj_return"
    /\ Len(Input) = 2
    /\ Good(Input[1])
    /\ GoodEitherSpelling(Input[2]) /\ "c2_protocol" \in DOMAIN Input[2]
    /\ Len(payloads_list) = 1
    /\ payloads_list[1]["C2 Protocol"] = "c2_1"
    /\ log = << KeyErrorLogged("c2_protocol ") >>

(* ----------------------- properties of format_table -------------------- *)
NumCols == Len(df.columns)

NumRows == Len(df.rows)

FormatTableDone == entry = "format_table" /\ pc = "done"

\* the caller met the contract: one width and one style per column
ListsMatch == Len(column_widths) = NumCols /\ Len(column_style_list) = NumCols

\* the cell of the returned table at 1-based row i, column j carries colour c
Coloured(i, j, c) == [column |-> j - 1, row |-> i - 1, colour |-> c] \in table.textcolor

\* C11: called with one width and one style per column on a frame of N > 0
\* rows, format_table returns a table of N + 1 rows, each as wide as the frame;
\* row 0 holds the column names in order in the header style, and input row i
\* is output row i + 1 with its cells in column order.
C11_HeaderThenRowsInOrder ==
    (FormatTableDone /\ NumRows > 0 /\ ListsMatch) =>
        /\ table.exc = NoExc
        /\ table.kind = "Table"
        /\ Len(table.cellvalues) = NumRows + 1
        /\ \A i \in 1..(NumRows + 1) : Len(table.cellvalues[i]) = NumCols
        /\ \A j \in 1..NumCols :
             table.cellvalues[1][j] = Paragraph(df.columns[j], "header_style")
        /\ \A i \in 1..NumRows : \A j \in 1..NumCols :
             table.cellvalues[i + 1][j].text = df.rows[i][j]

\* two different rows of two columns were laid out
C11_Witness ==
    /\ FormatTableDone /\ ListsMatch
    /\ NumRows = 2 /\ NumCols = 2
    /\ df.rows[1] # df.rows[2]
    /\ table.exc = NoExc
    /\ Len(table.cellvalues) = 3

\* C12 as stated: in the returned table a cell, in the header or the body and
\* in any column, is red exactly when its value is "Not Blocked" and green
\* exactly when its value is "Blocked".
C12_ColourByValueAlone ==
    (FormatTableDone /\ table.exc = NoExc) =>
        \A i \in 1..Len(table.cellvalues) : \A j \in 1..Len(table.cellvalues[i]) :
            /\ Coloured(i, j, "red") <=> table.cellvalues[i][j].text = "Not Blocked"
            /\ Coloured(i, j, "green") <=> table.cellvalues[i][j].text = "Blocked"

\* C13: on a frame with zero rows format_table returns, without raising, the
\* header-only table together with the "No Data to Report" block; on a frame
\* with rows a call that returns gives the table alone, with no placeholder.
C13_PlaceholderIffNoRows ==
    FormatTableDone =>
        /\ NumRows = 0 =>
             /\ table.exc = NoExc
             /\ table.kind = "KeepTogether"
             /\ table.label = "No Data to Report"
             /\ Len(table.cellvalues) = 1
             /\ Len(table.cellvalues[1]) = NumCols
             /\ \A j \in 1..NumCols : table.cellvalues[1][j].text = df.columns[j]
        /\ (NumRows > 0 /\ table.exc = NoExc) =>
             /\ table.kind = "Table"
             /\ table.label = ""

\* a frame of two columns and no rows was laid out
C13_Witness ==
    /\ FormatTableDone
    /\ NumRows = 0 /\ NumCols = 2
    /\ table.kind = "KeepTogether"

\* C18 as stated: a call whose column_widths or column_style_list differs in
\* length from the column count fails instead of returning a table.
C18_RejectsLengthMismatch ==
    (FormatTableDone /\ ~ListsMatch) => table.exc # NoExc

(* ------------------------ properties of report_gen --------------------- *)
\* report_gen has just printed the key and returned
JustPrinted == pc \in {"rg_returned", "gr_true"}

\* C14: every invocation of report_gen draws a key, hands it to its document
\* template, which protects the document with it, and the key printed at the
\* end of the invocation is that same key: not a key of an earlier invocation,
\* not a value left in the environment, not None; one key is printed per
\* invocation that reaches the build.
C14_PrintedKeyIsThisRunsKey ==
    /\ JustPrinted =>
         /\ Len(stdout) >= 1
         /\ stdout[Len(stdout)] = doc_key
         /\ stdout[Len(stdout)] \in Keys
         /\ doc_key = report_key
         /\ doc_encrypt = report_key
    /\ Len(stdout) = multiBuild_calls

\* the second invocation in a row drew another key than the first and has
\* printed it
C14_Witness ==
    /\ entry = "report_gen" /\ pc = "rg_returned"
    /\ Len(stdout) = 2
    /\ stdout[1] # stdout[2]
    /\ stdout[2] = doc_key

\* position of the first block of story s with the given kind and id, 0 if none
FirstIndex(s, kind, id) ==
    IF \E i \in 1..Len(s) : s[i].kind = kind /\ s[i].id = id
    THEN CHOOSE i \in 1..Len(s) :
            /\ s[i].kind = kind /\ s[i].id = id
            /\ \A j \in 1..(i - 1) : ~(s[j].kind = kind /\ s[j].id = id)
    ELSE 0

\* position of the first page break of story s, 0 if none
FirstBreak(s) ==
    IF \E i \in 1..Len(s) : s[i].kind = "PageBreak"
    THEN CHOOSE i \in 1..Len(s) :
            /\ s[i].kind = "PageBreak"
            /\ \A j \in 1..(i - 1) : s[j].kind # "PageBreak"
    ELSE 0

\* the page template under which block i of story s is rendered: the first
\* template until a page break that follows a NextPageTemplate, then the
\* template that NextPageTemplate names
TemplateOf(s, i) ==
    IF \E k \in 1..(i - 1) :
          /\ s[k].kind = "PageBreak"
          /\ \E m \in 1..(k - 1) : s[m].kind = "NextPageTemplate" /\ s[m].id = "content_page"
    THEN "content_page"
    ELSE "title_page"

CoverKinds == {"Image", "Spacer", "Paragraph", "NextPageTemplate"}

\* C19: the story handed to doc.multiBuild is the whole story, handed over once;
\* in it the cover title precedes the metadata table, which precedes the
\* narrative paragraph (carrying num_payloads and payloads_not_blocked), which
\* precedes the results table (one table row per payload row, in order); the
\* switch to the content template precedes the first page break, only the
\* cover blocks come before that break and render under the cover template,
\* and every block after it renders under the content template.
C19_StoryOrderAndTemplates ==
    /\ multiBuild_calls = 0 => built_story = << >>
    /\ entry \in {"generate_reports", "main"} => multiBuild_calls <= 1
    /\ multiBuild_calls > 0 =>
         LET s == built_story
             title == FirstIndex(s, "Paragraph", "cover_heading")
             switch == FirstIndex(s, "NextPageTemplate", "content_page")
             meta == FirstIndex(s, "Table", "metadata")
             narr == FirstIndex(s, "Paragraph", "narrative")
             results == FirstIndex(s, "Table", "results")
             brk == FirstBreak(s)
         IN  /\ s = Story
             /\ 0 < title /\ title < meta /\ meta < narr /\ narr < results
             /\ s[Len(s)].id = "conclusion_body"
             /\ 0 < switch /\ switch < brk
             /\ title < brk /\ brk < meta
             /\ \A i \in 1..(brk - 1) :
                  /\ s[i].kind \in CoverKinds
                  /\ s[i].kind = "Paragraph" => s[i].id = "cover_heading"
             /\ \A i \in 1..Len(s) :
                  TemplateOf(s, i) = (IF i <= brk THEN "title_page" ELSE "content_page")
             /\ narrative = << payloads_meta["num_payloads"],
                               payloads_meta["payloads_not_blocked"] >>
             /\ results_table.exc = NoExc
             /\ Len(results_table.cellvalues) = Len(payloads_list) + 1
             /\ \A i \in 1..Len(payloads_list) : \A j \in 1..Len(ResultsColumns) :
                  results_table.cellvalues[i + 1][j].text = payloads_list[i][ResultsColumns[j]]

\* a report over two different payload rows was built
C19_Witness ==
    /\ entry = "generate_reports"
    /\ multiBuild_calls = 1
    /\ Len(payloads_list) = 2
    /\ payloads_list[1] # payloads_list[2]
    /\ Len(built_story) > 0
    /\ narrative = << 2, payloads_meta["payloads_not_blocked"] >>

(* --------------------------- properties of main ------------------------ *)
\* main is over: it called sys.exit, returned, or an exception ended it
Exited == entry = "main" /\ pc = "exited"

\* C15: a failed schema validation exits with 1, a failed domain validation
\* (the schema being satisfied) exits with 2, arguments invalid in both ways
\* exit with 1, neither failure calls generate_reports, and a run whose
\* generate_reports returned True returns normally; generate_reports is
\* called once by every run with valid arguments.
C15_ExitCodes ==
    /\ entry = "main" => generate_reports_calls <= 1
    /\ (entry = "main" /\ ValidateArgs(args) # "ok") =>
          /\ generate_reports_calls = 0
          /\ parse_json_calls = 0 /\ report_gen_calls = 0
          /\ pc \in {"main_start", "exited"}
    /\ Exited =>
          /\ Lower(args.log_level) \notin LogLevels => exit_code = 1
          /\ (Lower(args.log_level) \in LogLevels /\ ~DomainValid(args.domain))
                => exit_code = 2
          /\ (Lower(args.log_level) \in LogLevels /\ DomainValid(args.domain))
                => generate_reports_calls = 1
          /\ ret = "True" => exit_code = 0

\* arguments invalid in both ways have ended main with 1
C15_Witness ==
    /\ Exited
    /\ args.log_level = "emergency" /\ args.domain = "cisa"
    /\ exit_code = 1
    /\ generate_reports_calls = 0

\* a run with an upper-case level and a valid domain has returned normally
C15_WitnessSuccess ==
    /\ Exited
    /\ args.log_level = "DEBUG"
    /\ ret = "True" /\ exit_code = 0
    /\ multiBuild_calls = 1

\* the success message is in the log
SuccessLogged == \E i \in 1..Len(log) : log[i].level = "info" /\ log[i].arg = SuccessMsg

\* C16: a run of main whose generate_reports returned False, or whose
\* aggregation pass failed, ends with a non-zero status and without the
\* success message.
C16_FailureIsNonZero ==
    (Exited /\ generate_reports_calls = 1
       /\ (ret = "False" \/ \E i \in 1..Len(log) : log[i].level = "exception"))
      => (exit_code # 0 /\ ~SuccessLogged)

=============================================================================
